---- MODULE Spec2Model ----
(***************************************************************************)
(* State-machine model of the persistence layer of analyst-agent:          *)
(*   src/src/datastore/sqlite_store.py      (SqliteStore)                   *)
(*   src/src/datastore/attachment_store.py  (RawAttachmentStore)            *)
(*                                                                         *)
(* Tables are sets of rows.  Identifiers are modelled as positive integers *)
(* whose numeric order stands for the collation order of the TEXT ids.     *)
(* Timestamps are the readings of a non-decreasing clock; two readings may *)
(* be equal (ISO strings of equal instants compare equal).                 *)
(***************************************************************************)
EXTENDS Integers, Sequences, FiniteSets, TLC

\* ------------------------------------------------------------------ bounds
MaxTime == 1
MaxLimit == 2
MaxPosition == 1

Procs == {1, 2}
ThreadIds == {1, 2}
ItemIds == {1, 2}
Titles == {"a"}
Texts == {"x"}

NoId == 0
NoTime == -1
NoFrame == [thread_id |-> NoId]

\* order strings a caller may pass
OrderArgs == {"asc", "desc", "ASC", "newest"}
Limits == 0..MaxLimit

\* created_at carried by the value handed to the store (NoTime: none)
CreatedIn == {NoTime}

ThreadInputs == [id : ThreadIds, title : Titles, created_at : CreatedIn]
\* the threads of the specification that lists threads
ListedThreadIds == {1, 2, 3}
ListedThreadInputs == [id : ListedThreadIds, title : Titles, created_at : CreatedIn]
\* the threads of the specification that saves threads again and again:
\* documents that differ, with and without a creation time of their own
SavedThreadInputs == [id : ThreadIds, title : {"a", "b"},
                      created_at : {NoTime, 0, 1}]
\* the threads saved again over rows that hold items
UpsertThreadInputs == [id : ThreadIds, title : {"a", "b"}, created_at : {NoTime, 1}]
\* the threads and items of the specification that rewrites documents
DocThreadInputs == [id : ThreadIds, title : {"a", "b"}, created_at : {NoTime}]
DocItemInputs == [id : ItemIds \cup {NoId}, text : {"x", "y"}, created_at : {0}]
\* items that carry no created_at of their own (the store reads the clock)
ClockedItemInputs == [id : ItemIds, text : Texts, created_at : {NoTime}]
ItemInputs == [id : ItemIds \cup {NoId}, text : Texts, created_at : {0}]

\* what create_attachment is called with: the declared name and MIME type,
\* and whether the request context carries file bytes
\* (a MIME type "major/minor" is the pair of its two parts; payload is the
\* number of bytes, NoPayload when the context carries none)
Mimes == {[major |-> "image", minor |-> "png"],
          [major |-> "IMAGE", minor |-> "png"],
          [major |-> "application", minor |-> "pdf"]}
NoPayload == -1
AttachmentInputs == [name : {"a.bin"}, mime_type : Mimes, payload : {NoPayload, 2}]

\* (mutant: RawAttachmentStore built without a metadata_store)
MetadataStoreNone == FALSE

\* main.py builds RawAttachmentStore(metadata_store=datastore)
MetadataStoreConfigured == TRUE

\* identifiers generate_attachment_id can hand out
MaxAttachments == 2
AttachmentIds == 1..MaxAttachments

NoDir == [exists |-> FALSE]
NoMeta == [id |-> NoId]

\* SqliteStore: the tables threads, thread_items, attachments.
\* RawAttachmentStore: disk[a] is the directory root/a (NoDir: none; else
\* whether the stored file is there, and the content of metadata.json);
\* issued counts the attachment ids generated so far.
\* now is the clock; pc[p] and frame[p] are where caller p stands in a call
\* that is made of several steps, and the locals of that call.
VARIABLES threads, thread_items, attachments, disk, issued,
          now, pc, frame, last, max_assigned

vars == <<threads, thread_items, attachments, disk, issued,
          now, pc, frame, last, max_assigned>>

\* ------------------------------------------------------------- helpers
Max(S) == CHOOSE x \in S : \A y \in S : y <= x
Min2(a, b) == IF a < b THEN a ELSE b

_utc_now_iso == now

\* str.lower() on the strings callers pass
Lower(s) == CASE s = "ASC" -> "asc"
              [] s = "Asc" -> "asc"
              [] s = "DESC" -> "desc"
              [] s = "Desc" -> "desc"
              [] s = "IMAGE" -> "image"
              [] s = "Image" -> "image"
              [] OTHER -> s

\* (mutant: the order compared without lower())
_safe_order_exact(order) ==
    IF order \notin {"asc", "desc"} THEN "desc" ELSE order

_safe_order(order) ==
    LET o == Lower(order)
    IN  IF o \notin {"asc", "desc"} THEN "desc" ELSE o

\* ------------------------------------------------------------ SQL pieces
\* (mutant: ORDER BY id <dir> alone)
PrecedesById(r, q, order) ==
    IF order = "asc" THEN r.id < q.id ELSE r.id > q.id

\* ORDER BY key <dir>, id <dir> : does row r sort before row q
Precedes(r, q, order) ==
    IF order = "asc"
    THEN r.key < q.key \/ (r.key = q.key /\ r.id < q.id)
    ELSE r.key > q.key \/ (r.key = q.key /\ r.id > q.id)

RECURSIVE OrderBy(_, _)
OrderBy(S, order) ==
    IF S = {} THEN <<>>
    ELSE LET first == CHOOSE r \in S : \A q \in S \ {r} : Precedes(r, q, order)
         IN  <<first>> \o OrderBy(S \ {first}, order)

\* LIMIT n (n >= 0)
SqlLimit(rows, n) == SubSeq(rows, 1, Min2(n, Len(rows)))

\* SELECT COALESCE(MAX(position) + 1, 0) FROM thread_items WHERE thread_id = ?
NextPosition(thread_id) ==
    LET ps == {r.position : r \in {x \in thread_items : x.thread_id = thread_id}}
    IN  IF ps = {} THEN 0 ELSE Max(ps) + 1

\* (mutant: foreign keys not enforced on the connection, no cascade)
CascadeOff(thread_id) == thread_items

\* DELETE FROM threads WHERE id = ?  with  ON DELETE CASCADE on thread_items
CascadeItems(thread_id) == {r \in thread_items : r.thread_id # thread_id}

\* --------------------------------------------------------------- Init
\* `last` is the outcome of the call that returned most recently.
\* `max_assigned[t]` is a history variable: the largest position any item of
\* the current thread t was ever inserted with (-1: none yet).  No action of
\* the store reads or writes it; Observe records it where a claim needs it.
Init ==
    /\ threads = {}
    /\ thread_items = {}
    /\ attachments = {}
    /\ disk = [a \in AttachmentIds |-> NoDir]
    /\ issued = 0
    /\ now = 0
    /\ pc = [p \in Procs |-> "idle"]
    /\ frame = [p \in Procs |-> NoFrame]
    /\ last = [op |-> "init", status |-> "ok"]
    /\ max_assigned = [t \in ThreadIds |-> -1]

\* the wall clock advances between calls
Tick ==
    /\ now < MaxTime
    /\ now' = now + 1
    /\ UNCHANGED <<threads, thread_items, pc, frame, last>>

\* The data columns hold the record serialized as JSON text: the text is the
\* set of the record's "key": value members, and parsing it builds the record
\* back from the members.
model_dump_json(doc) == {<<k, doc[k]>> : k \in DOMAIN doc}

\* (mutant: a parse that keeps only the id of the record)
validate_json_lossy(text) ==
    [k \in {m[1] : m \in text} \cap {"id"} |-> (CHOOSE m \in text : m[1] = k)[2]]

validate_json(text) ==
    [k \in {m[1] : m \in text} |-> (CHOOSE m \in text : m[1] = k)[2]]

\* ------------------------------------------------------------ threads
\* SELECT data FROM threads WHERE id = ?
load_thread_worker(thread_id) ==
    LET row == {r \in threads : r.id = thread_id}
    IN  IF row = {}
        THEN [op |-> "load_thread", status |-> "KeyError"]
        ELSE [op |-> "load_thread", status |-> "ok",
              value |-> validate_json((CHOOSE r \in row : TRUE).data)]

\* (mutant: INSERT OR REPLACE INTO threads: the old row is deleted, its items
\* with it, and a new row written)
save_thread_replace(p, thread) ==
    /\ pc[p] = "idle"
    /\ threads' = {r \in threads : r.id # thread.id} \cup
                  {[id |-> thread.id, data |-> model_dump_json(thread),
                    created_at |-> IF thread.created_at # NoTime
                                   THEN thread.created_at ELSE _utc_now_iso,
                    updated_at |-> _utc_now_iso]}
    /\ thread_items' = {r \in thread_items : r.thread_id # thread.id}
    /\ last' = [op |-> "save_thread", status |-> "ok"]
    /\ UNCHANGED <<now, pc, frame>>

save_thread(p, thread) ==
    /\ pc[p] = "idle"
    /\ LET created_at == IF thread.created_at # NoTime
                         THEN thread.created_at ELSE _utc_now_iso
           updated_at == _utc_now_iso
           old == {r \in threads : r.id = thread.id}
       IN  threads' =
             IF old = {}
             THEN threads \cup {[id |-> thread.id, data |-> model_dump_json(thread),
                                 created_at |-> created_at,
                                 updated_at |-> updated_at]}
             ELSE (threads \ old) \cup
                  {[r EXCEPT !.data = model_dump_json(thread),
                              !.updated_at = updated_at] : r \in old}
    /\ last' = [op |-> "save_thread", status |-> "ok"]
    /\ UNCHANGED <<thread_items, now, pc, frame>>

load_thread(p, thread_id) ==
    /\ pc[p] = "idle"
    /\ last' = load_thread_worker(thread_id)
    /\ UNCHANGED <<threads, thread_items, now, pc, frame>>

\* (mutant: the rowcount of the DELETE not looked at)
delete_thread_unchecked(p, thread_id) ==
    /\ pc[p] = "idle"
    /\ LET hit == {r \in threads : r.id = thread_id}
       IN  /\ threads' = threads \ hit
           /\ thread_items' = CascadeItems(thread_id)
           /\ last' = [op |-> "delete_thread", status |-> "ok",
                       cascaded |-> Cardinality(thread_items) -
                                    Cardinality(thread_items')]
    /\ UNCHANGED <<now, pc, frame>>

delete_thread(p, thread_id) ==
    /\ pc[p] = "idle"
    /\ LET hit == {r \in threads : r.id = thread_id}
           changes == Cardinality(hit)
       IN  /\ threads' = threads \ hit
           /\ thread_items' = IF changes = 0 THEN thread_items
                              ELSE CascadeItems(thread_id)
           /\ last' = [op |-> "delete_thread",
                       status |-> IF changes = 0 THEN "KeyError" ELSE "ok",
                       cascaded |-> Cardinality(thread_items) -
                                    Cardinality(thread_items')]
    /\ UNCHANGED <<now, pc, frame>>

\* -------------------------------------------------------- thread items
\* (mutant: the item's id not looked at before the database is used)
add_thread_item_unchecked(p, thread_id, item) ==
    /\ pc[p] = "idle"
    /\ NextPosition(thread_id) <= MaxPosition
    /\ pc' = [pc EXCEPT ![p] = "add_insert"]
    /\ frame' = [frame EXCEPT ![p] =
           [thread_id |-> thread_id, item |-> item,
            created_at |-> IF item.created_at # NoTime
                           THEN item.created_at ELSE _utc_now_iso,
            position |-> NextPosition(thread_id)]]
    /\ UNCHANGED <<threads, thread_items, now, last>>

\* add_thread_item up to and including the SELECT of the next position.  The
\* SELECT runs before sqlite3 opens the implicit transaction (which it only
\* does in front of INSERT/UPDATE/DELETE), so other connections may commit
\* between it and the INSERT.
add_thread_item(p, thread_id, item) ==
    /\ pc[p] = "idle"
    /\ IF item.id = NoId
       THEN /\ last' = [op |-> "add_thread_item", status |-> "ValueError"]
            /\ UNCHANGED <<pc, frame>>
       ELSE /\ NextPosition(thread_id) <= MaxPosition
            /\ pc' = [pc EXCEPT ![p] = "add_insert"]
            /\ frame' = [frame EXCEPT ![p] =
                   [thread_id |-> thread_id, item |-> item,
                    created_at |-> IF item.created_at # NoTime
                                   THEN item.created_at ELSE _utc_now_iso,
                    position |-> NextPosition(thread_id)]]
            /\ UNCHANGED last
    /\ UNCHANGED <<threads, thread_items, now>>

\* (mutant: thread_items without its PRIMARY KEY on id)
InsertItemNoPrimaryKey(f) ==
    IF ~ \E t \in threads : t.id = f.thread_id
    THEN {}
    ELSE {[id |-> f.item.id, thread_id |-> f.thread_id,
           data |-> model_dump_json(f.item),
           created_at |-> f.created_at, position |-> f.position]}

\* (mutant: thread_items without its FOREIGN KEY on thread_id)
InsertItemNoForeignKey(f) ==
    IF \E r \in thread_items : r.id = f.item.id
    THEN {}
    ELSE {[id |-> f.item.id, thread_id |-> f.thread_id,
           data |-> model_dump_json(f.item),
           created_at |-> f.created_at, position |-> f.position]}

\* the constraint sqlite3.IntegrityError names: the PRIMARY KEY is checked as
\* the row is written, the FOREIGN KEY when the statement ends
InsertError(f) ==
    IF \E r \in thread_items : r.id = f.item.id
    THEN "UNIQUE constraint failed"
    ELSE "FOREIGN KEY constraint failed"

\* INSERT INTO thread_items ...: the row, unless the PRIMARY KEY or the
\* FOREIGN KEY refuses it
InsertItem(f) ==
    IF \/ \E r \in thread_items : r.id = f.item.id
       \/ ~ \E t \in threads : t.id = f.thread_id
    THEN {}
    ELSE {[id |-> f.item.id, thread_id |-> f.thread_id,
           data |-> model_dump_json(f.item),
           created_at |-> f.created_at, position |-> f.position]}

\* UPDATE threads SET updated_at = ? WHERE id = ?
TouchThread(thread_id, at) ==
    {IF r.id = thread_id THEN [r EXCEPT !.updated_at = at] ELSE r : r \in threads}

\* the rest of the worker: INSERT, UPDATE threads, and the commit on leaving
\* the connection's context (a rollback when a statement raised)
add_thread_item_insert(p) ==
    /\ pc[p] = "add_insert"
    /\ LET f == frame[p]
           row == InsertItem(f)
       IN  IF row = {}
           THEN /\ last' = [op |-> "add_thread_item", status |-> "IntegrityError",
                            detail |-> InsertError(f)]
                /\ UNCHANGED <<threads, thread_items>>
           ELSE /\ thread_items' = thread_items \cup row
                /\ threads' = TouchThread(f.thread_id, _utc_now_iso)
                /\ last' = [op |-> "add_thread_item", status |-> "ok"]
    /\ pc' = [pc EXCEPT ![p] = "idle"]
    /\ frame' = [frame EXCEPT ![p] = NoFrame]
    /\ UNCHANGED now

\* (mutant: the row matched by its id alone, in whatever thread it lies)
UpdateItemAnyThread(thread_id, item) ==
    {IF r.id = item.id
     THEN [r EXCEPT !.data = model_dump_json(item)] ELSE r : r \in thread_items}

\* (mutant: each statement committed on its own, so that a failure of the
\* UPDATE leaves the inserted row)
add_thread_item_no_rollback(p) ==
    /\ pc[p] = "add_insert"
    /\ thread_items' = thread_items \cup InsertItem(frame[p])
    /\ threads' = threads
    /\ last' = [op |-> "add_thread_item", status |-> "OperationalError"]
    /\ pc' = [pc EXCEPT ![p] = "idle"]
    /\ frame' = [frame EXCEPT ![p] = NoFrame]
    /\ UNCHANGED now

\* the worker when one of its statements raises sqlite3.OperationalError
\* (the database is locked, the disk is full): the exception leaves
\* `with self._connect() as conn`, which rolls the transaction back
add_thread_item_rollback(p) ==
    /\ pc[p] = "add_insert"
    /\ last' = [op |-> "add_thread_item", status |-> "OperationalError"]
    /\ pc' = [pc EXCEPT ![p] = "idle"]
    /\ frame' = [frame EXCEPT ![p] = NoFrame]
    /\ UNCHANGED <<threads, thread_items, now>>

\* UPDATE thread_items SET data = ? WHERE thread_id = ? AND id = ?
UpdateItem(thread_id, item) ==
    {IF r.thread_id = thread_id /\ r.id = item.id
     THEN [r EXCEPT !.data = model_dump_json(item)] ELSE r : r \in thread_items}

MatchingItems(thread_id, item_id) ==
    {r \in thread_items : r.thread_id = thread_id /\ r.id = item_id}

save_item(p, thread_id, item) ==
    /\ pc[p] = "idle"
    /\ IF item.id = NoId
       THEN /\ last' = [op |-> "save_item", status |-> "ValueError"]
            /\ UNCHANGED <<threads, thread_items>>
       ELSE LET changes == Cardinality(MatchingItems(thread_id, item.id))
            IN  /\ thread_items' = UpdateItem(thread_id, item)
                /\ threads' = threads
                /\ last' = [op |-> "save_item",
                            status |-> IF changes = 0 THEN "KeyError" ELSE "ok"]
    /\ UNCHANGED <<now, pc, frame>>

\* SELECT data FROM thread_items WHERE thread_id = ? AND id = ?
load_item_worker(thread_id, item_id) ==
    LET row == MatchingItems(thread_id, item_id)
    IN  IF row = {}
        THEN [op |-> "load_item", status |-> "KeyError"]
        ELSE [op |-> "load_item", status |-> "ok",
              value |-> validate_json((CHOOSE r \in row : TRUE).data)]

load_item(p, thread_id, item_id) ==
    /\ pc[p] = "idle"
    /\ last' = load_item_worker(thread_id, item_id)
    /\ UNCHANGED <<threads, thread_items, now, pc, frame>>

delete_thread_item(p, thread_id, item_id) ==
    /\ pc[p] = "idle"
    /\ LET hit == MatchingItems(thread_id, item_id)
           changes == Cardinality(hit)
       IN  /\ thread_items' = thread_items \ hit
           /\ threads' = threads
           /\ last' = [op |-> "delete_thread_item",
                       status |-> IF changes = 0 THEN "KeyError" ELSE "ok"]
    /\ UNCHANGED <<now, pc, frame>>

\* ------------------------------------------------------------ listing
\* rows[:limit], has_more and next_after as both listing workers compute
\* them; data_rows[-1] on an empty list raises IndexError
Paginate(op, rows, limit) ==
    LET has_more == Len(rows) > limit
        data_rows == SubSeq(rows, 1, Min2(limit, Len(rows)))
        data == [k \in 1..Len(data_rows) |-> validate_json(data_rows[k].data)]
    IN  IF has_more \/ data # <<>>
        THEN IF data_rows = <<>>
             THEN [op |-> op, status |-> "IndexError"]
             ELSE [op |-> op, status |-> "ok", data |-> data,
                   has_more |-> has_more,
                   after |-> data_rows[Len(data_rows)].id]
        ELSE [op |-> op, status |-> "ok", data |-> data,
              has_more |-> has_more, after |-> NoId]

\* (mutant: the keyset predicate without its tie-break on id)
ThreadsWhereNoTieBreak(after, order) ==
    LET cursor == {r \in threads : r.id = after}
    IN  IF after = NoId \/ cursor = {} THEN threads
        ELSE LET updated_at == (CHOOSE r \in cursor : TRUE).updated_at
             IN  IF order = "desc"
                 THEN {r \in threads : r.updated_at < updated_at}
                 ELSE {r \in threads : r.updated_at > updated_at}

\* WHERE (updated_at cmp ?) OR (updated_at = ? AND id cmp ?), when the cursor
\* names a row; no WHERE clause otherwise
ThreadsWhere(after, order) ==
    LET cursor == {r \in threads : r.id = after}
    IN  IF after = NoId \/ cursor = {} THEN threads
        ELSE LET updated_at == (CHOOSE r \in cursor : TRUE).updated_at
             IN  IF order = "desc"
                 THEN {r \in threads : \/ r.updated_at < updated_at
                                       \/ (r.updated_at = updated_at /\ r.id < after)}
                 ELSE {r \in threads : \/ r.updated_at > updated_at
                                       \/ (r.updated_at = updated_at /\ r.id > after)}

load_threads_worker(limit, after, order_arg) ==
    LET order == _safe_order(order_arg)
        keyed == {[id |-> r.id, key |-> r.updated_at, data |-> r.data] :
                  r \in ThreadsWhere(after, order)}
        rows == SqlLimit(OrderBy(keyed, order), limit + 1)
    IN  Paginate("load_threads", rows, limit)

load_threads(p, limit, after, order) ==
    /\ pc[p] = "idle"
    /\ last' = load_threads_worker(limit, after, order)
    /\ UNCHANGED <<threads, thread_items, now, pc, frame>>

\* (mutant: the cursor looked up by id alone, in whatever thread it lies)
ItemsWhereAnyThread(thread_id, after, order) ==
    LET scoped == {r \in thread_items : r.thread_id = thread_id}
        cursor == {r \in thread_items : r.id = after}
    IN  IF after = NoId \/ cursor = {} THEN scoped
        ELSE LET position == (CHOOSE r \in cursor : TRUE).position
             IN  IF order = "desc"
                 THEN {r \in scoped : r.position < position}
                 ELSE {r \in scoped : r.position > position}

\* WHERE thread_id = ? [AND position cmp ?], the cursor looked up with
\* WHERE thread_id = ? AND id = ?
ItemsWhere(thread_id, after, order) ==
    LET scoped == {r \in thread_items : r.thread_id = thread_id}
        cursor == {r \in scoped : r.id = after}
    IN  IF after = NoId \/ cursor = {} THEN scoped
        ELSE LET position == (CHOOSE r \in cursor : TRUE).position
             IN  IF order = "desc"
                 THEN {r \in scoped : r.position < position}
                 ELSE {r \in scoped : r.position > position}

load_thread_items_worker(thread_id, after, limit, order_arg) ==
    LET order == _safe_order(order_arg)
        keyed == {[id |-> r.id, key |-> r.position, data |-> r.data] :
                  r \in ItemsWhere(thread_id, after, order)}
        rows == SqlLimit(OrderBy(keyed, order), limit + 1)
    IN  Paginate("load_thread_items", rows, limit)

load_thread_items(p, thread_id, after, limit, order) ==
    /\ pc[p] = "idle"
    /\ last' = load_thread_items_worker(thread_id, after, limit, order)
    /\ UNCHANGED <<threads, thread_items, now, pc, frame>>

\* -------------------------------------------------- attachment records
\* INSERT INTO attachments ... ON CONFLICT(id) DO UPDATE SET data, updated_at
save_attachment(attachment) ==
    LET old == {r \in attachments : r.id = attachment.id}
    IN  IF old = {}
        THEN attachments \cup {[id |-> attachment.id,
                                data |-> model_dump_json(attachment),
                                created_at |-> _utc_now_iso,
                                updated_at |-> _utc_now_iso]}
        ELSE (attachments \ old) \cup
             {[r EXCEPT !.data = model_dump_json(attachment),
                       !.updated_at = _utc_now_iso] : r \in old}

\* ------------------------------------------------------ attachment store
\* (mutant: the prefix compared without lower())
_is_image_mime_exact(mime_type) == mime_type.major = "image"

\* mime_type.lower().startswith("image/")
_is_image_mime(mime_type) == Lower(mime_type.major) = "image"

\* create_attachment up to attachment_dir.mkdir(parents=True, exist_ok=True)
create_attachment(p, input) ==
    /\ pc[p] = "idle"
    /\ issued < MaxAttachments
    /\ issued' = issued + 1
    /\ LET attachment_id == issued + 1
       IN  IF input.payload = NoPayload
           THEN /\ last' = [op |-> "create_attachment", status |-> "ValueError"]
                /\ UNCHANGED <<disk, pc, frame>>
           ELSE /\ disk' = [disk EXCEPT ![attachment_id] =
                              IF @.exists THEN @
                              ELSE [exists |-> TRUE, blob |-> FALSE,
                                    metadata |-> NoMeta]]
                /\ pc' = [pc EXCEPT ![p] = "create_write_bytes"]
                /\ frame' = [frame EXCEPT ![p] =
                       [attachment_id |-> attachment_id, input |-> input]]
                /\ UNCHANGED last
    /\ UNCHANGED attachments

\* await asyncio.to_thread(self._write_bytes, blob_path, payload)
create_write_bytes(p) ==
    /\ pc[p] = "create_write_bytes"
    /\ LET a == frame[p].attachment_id
       IN  IF disk[a].exists
           THEN /\ disk' = [disk EXCEPT ![a].blob = TRUE]
                /\ pc' = [pc EXCEPT ![p] = "create_write_json"]
                /\ UNCHANGED <<frame, last>>
           ELSE /\ last' = [op |-> "create_attachment",
                            status |-> "FileNotFoundError"]
                /\ pc' = [pc EXCEPT ![p] = "idle"]
                /\ frame' = [frame EXCEPT ![p] = NoFrame]
                /\ UNCHANGED disk
    /\ UNCHANGED <<attachments, issued>>

\* await asyncio.to_thread(self._write_json, attachment_dir / "metadata.json", metadata)
create_write_json(p) ==
    /\ pc[p] = "create_write_json"
    /\ LET a == frame[p].attachment_id
           input == frame[p].input
       IN  IF disk[a].exists
           THEN /\ disk' = [disk EXCEPT ![a].metadata =
                              [id |-> a, name |-> input.name,
                               mime_type |-> input.mime_type,
                               size |-> input.payload,
                               stored_name |-> input.name,
                               created_at |-> _utc_now_iso]]
                /\ pc' = [pc EXCEPT ![p] = "create_save_metadata"]
                /\ UNCHANGED <<frame, last>>
           ELSE /\ last' = [op |-> "create_attachment",
                            status |-> "FileNotFoundError"]
                /\ pc' = [pc EXCEPT ![p] = "idle"]
                /\ frame' = [frame EXCEPT ![p] = NoFrame]
                /\ UNCHANGED disk
    /\ UNCHANGED <<attachments, issued>>

\* the Attachment value create_attachment builds
BuildAttachment(attachment_id, input) ==
    [id |-> attachment_id, name |-> input.name, mime_type |-> input.mime_type,
     size |-> input.payload, upload_url |-> NoId,
     type |-> IF _is_image_mime(input.mime_type) THEN "image" ELSE "file",
     preview_url |-> IF _is_image_mime(input.mime_type) THEN attachment_id ELSE NoId]

\* what the create call ends with when the mirror's save_attachment raised
\* (db_ok = FALSE): _maybe_save_metadata awaits it with no handler
CreateOutcome(attachment, db_ok) ==
    IF MetadataStoreConfigured /\ ~ db_ok
    THEN [op |-> "create_attachment", status |-> "OperationalError"]
    ELSE [op |-> "create_attachment", status |-> "ok", value |-> attachment]

\* await self._maybe_save_metadata(attachment, context); return attachment.
\* db_ok: whether the database carried out the statement.
create_save_metadata(p, db_ok) ==
    /\ pc[p] = "create_save_metadata"
    /\ LET attachment == BuildAttachment(frame[p].attachment_id, frame[p].input)
       IN  /\ attachments' = IF MetadataStoreConfigured /\ db_ok
                             THEN save_attachment(attachment)
                             ELSE attachments
           /\ last' = CreateOutcome(attachment, db_ok)
    /\ pc' = [pc EXCEPT ![p] = "idle"]
    /\ frame' = [frame EXCEPT ![p] = NoFrame]
    /\ UNCHANGED <<disk, issued>>

\* delete_attachment up to the check that the directory exists
delete_attachment(p, attachment_id) ==
    /\ pc[p] = "idle"
    /\ IF ~ disk[attachment_id].exists
       THEN /\ last' = [op |-> "delete_attachment", status |-> "KeyError"]
            /\ UNCHANGED <<pc, frame>>
       ELSE /\ pc' = [pc EXCEPT ![p] = "delete_rmtree"]
            /\ frame' = [frame EXCEPT ![p] = [attachment_id |-> attachment_id]]
            /\ UNCHANGED last
    /\ UNCHANGED <<attachments, disk, issued>>

\* await asyncio.to_thread(shutil.rmtree, attachment_dir)
delete_rmtree(p) ==
    /\ pc[p] = "delete_rmtree"
    /\ LET a == frame[p].attachment_id
       IN  IF disk[a].exists
           THEN /\ disk' = [disk EXCEPT ![a] = NoDir]
                /\ pc' = [pc EXCEPT ![p] = "delete_metadata"]
                /\ UNCHANGED <<frame, last>>
           ELSE /\ last' = [op |-> "delete_attachment",
                            status |-> "FileNotFoundError"]
                /\ pc' = [pc EXCEPT ![p] = "idle"]
                /\ frame' = [frame EXCEPT ![p] = NoFrame]
                /\ UNCHANGED disk
    /\ UNCHANGED <<attachments, issued>>

\* what the delete call ends with: SqliteStore.delete_attachment raises
\* KeyError when it deleted no row, and _maybe_delete_metadata awaits it with
\* no handler
DeleteOutcome(changes, db_ok) ==
    IF ~ MetadataStoreConfigured THEN "ok"
    ELSE IF ~ db_ok THEN "OperationalError"
    ELSE IF changes = 0 THEN "KeyError"
    ELSE "ok"

\* await self._maybe_delete_metadata(attachment_id, context)
delete_metadata(p, db_ok) ==
    /\ pc[p] = "delete_metadata"
    /\ LET a == frame[p].attachment_id
           hit == {r \in attachments : r.id = a}
       IN  /\ attachments' = IF MetadataStoreConfigured /\ db_ok
                             THEN attachments \ hit ELSE attachments
           /\ last' = [op |-> "delete_attachment",
                       status |-> DeleteOutcome(Cardinality(hit), db_ok)]
    /\ pc' = [pc EXCEPT ![p] = "idle"]
    /\ frame' = [frame EXCEPT ![p] = NoFrame]
    /\ UNCHANGED <<disk, issued>>

\* _load_metadata: KeyError unless metadata.json exists
_load_metadata(attachment_id) ==
    IF disk[attachment_id].exists /\ disk[attachment_id].metadata # NoMeta
    THEN [status |-> "ok", value |-> disk[attachment_id].metadata]
    ELSE [status |-> "KeyError"]

get_metadata(p, attachment_id) ==
    /\ pc[p] = "idle"
    /\ last' = [op |-> "get_metadata"] @@ _load_metadata(attachment_id)
    /\ UNCHANGED <<attachments, disk, issued, pc, frame>>

\* the path root/attachment_id/stored_name, or KeyError when there is no
\* metadata (the stored_name written by create_attachment is never empty)
LocalPath(attachment_id) ==
    LET metadata == _load_metadata(attachment_id)
    IN  IF metadata.status # "ok"
        THEN [op |-> "get_local_path", status |-> "KeyError"]
        ELSE [op |-> "get_local_path", status |-> "ok",
              value |-> <<attachment_id, metadata.value.stored_name>>]

get_local_path(p, attachment_id) ==
    /\ pc[p] = "idle"
    /\ last' = LocalPath(attachment_id)
    /\ UNCHANGED <<attachments, disk, issued, pc, frame>>

\* --------------------------------------------------------- composition
\* Each action above says what it does to the variables of its own store;
\* Keep and KeepStore are the frames for the rest.
KeepAttachments == UNCHANGED <<attachments, disk, issued>>
Keep == UNCHANGED max_assigned /\ KeepAttachments
KeepStore == UNCHANGED <<threads, thread_items, now, max_assigned>>

\* The history variable: what the step did to the largest position ever
\* assigned in each thread (forgotten when the thread is deleted).
Observe ==
    max_assigned' =
      [t \in ThreadIds |->
         IF ~ \E r \in threads' : r.id = t THEN -1
         ELSE Max({max_assigned[t]} \cup
                  {r.position : r \in {x \in thread_items' : x.thread_id = t}})]

\* Concurrent callers of every writing operation of the SqliteStore.
Next ==
    \/ Tick /\ Keep
    \/ \E p \in Procs, thread \in ThreadInputs : save_thread(p, thread) /\ Keep
    \/ \E p \in Procs, t \in ThreadIds : delete_thread(p, t) /\ Keep
    \/ \E p \in Procs, t \in ThreadIds, item \in ItemInputs :
         add_thread_item(p, t, item) /\ Keep
    \/ \E p \in Procs : add_thread_item_insert(p) /\ Keep
    \/ \E p \in Procs, t \in ThreadIds, item \in ItemInputs :
         save_item(p, t, item) /\ Keep
    \/ \E p \in Procs, t \in ThreadIds, i \in ItemIds :
         delete_thread_item(p, t, i) /\ Keep

Spec == Init /\ [][Next]_vars

\* Calls made one after the other (a call starts only when no call is in
\* flight), with the history of assigned positions recorded.
Sequential(p) == \A q \in Procs \ {p} : pc[q] = "idle"

SeqNext ==
    \/ Tick /\ Keep
    \/ \E p \in Procs, thread \in ThreadInputs :
         Sequential(p) /\ save_thread(p, thread) /\ Observe /\ KeepAttachments
    \/ \E p \in Procs, t \in ThreadIds :
         Sequential(p) /\ delete_thread(p, t) /\ Observe /\ KeepAttachments
    \/ \E p \in Procs, t \in ThreadIds, item \in ItemInputs :
         Sequential(p) /\ add_thread_item(p, t, item) /\ Observe /\ KeepAttachments
    \/ \E p \in Procs : Sequential(p) /\ add_thread_item_insert(p) /\ Observe /\ KeepAttachments
    \/ \E p \in Procs, t \in ThreadIds, item \in ItemInputs :
         Sequential(p) /\ save_item(p, t, item) /\ Observe /\ KeepAttachments
    \/ \E p \in Procs, t \in ThreadIds, i \in ItemIds :
         Sequential(p) /\ delete_thread_item(p, t, i) /\ Observe /\ KeepAttachments

SeqSpec == Init /\ [][SeqNext]_vars

\* Concurrent appends to threads, and listings of the items and threads.
ItemsNext ==
    \/ \E p \in Procs, thread \in ThreadInputs : save_thread(p, thread) /\ Keep
    \/ \E p \in Procs, t \in ThreadIds, item \in ItemInputs :
         add_thread_item(p, t, item) /\ Keep
    \/ \E p \in Procs : add_thread_item_insert(p) /\ Keep
    \/ \E p \in Procs, t \in ThreadIds, i \in ItemIds : load_item(p, t, i) /\ Keep
    \/ \E p \in Procs, t \in ThreadIds, after \in ItemIds \cup {NoId},
          limit \in Limits, order \in OrderArgs :
         load_thread_items(p, t, after, limit, order) /\ Keep
    \/ \E p \in Procs, limit \in Limits, after \in ThreadIds \cup {NoId},
          order \in OrderArgs :
         load_threads(p, limit, after, order) /\ Keep

ItemsSpec == Init /\ [][ItemsNext]_vars

\* Calls made one after the other: threads and items saved and deleted, and
\* listings of what is left.
ListNext ==
    \/ \E p \in Procs, thread \in ThreadInputs :
         Sequential(p) /\ save_thread(p, thread) /\ Keep
    \/ \E p \in Procs, t \in ThreadIds : Sequential(p) /\ delete_thread(p, t) /\ Keep
    \/ \E p \in Procs, t \in ThreadIds, item \in ItemInputs :
         Sequential(p) /\ add_thread_item(p, t, item) /\ Keep
    \/ \E p \in Procs : Sequential(p) /\ add_thread_item_insert(p) /\ Keep
    \/ \E p \in Procs, t \in ThreadIds, i \in ItemIds :
         Sequential(p) /\ delete_thread_item(p, t, i) /\ Keep
    \/ \E p \in Procs, t \in ThreadIds, after \in ItemIds \cup {NoId},
          limit \in Limits, order \in OrderArgs :
         Sequential(p) /\ load_thread_items(p, t, after, limit, order) /\ Keep
    \/ \E p \in Procs, limit \in Limits, after \in ThreadIds \cup {NoId},
          order \in OrderArgs :
         Sequential(p) /\ load_threads(p, limit, after, order) /\ Keep

ListSpec == Init /\ [][ListNext]_vars

\* Concurrent appends of items stamped by the clock, on a database whose
\* statements may fail.
AtomicNext ==
    \/ Tick /\ Keep
    \/ \E p \in Procs, thread \in ThreadInputs : save_thread(p, thread) /\ Keep
    \/ \E p \in Procs, t \in ThreadIds : delete_thread(p, t) /\ Keep
    \/ \E p \in Procs, t \in ThreadIds, item \in ClockedItemInputs :
         add_thread_item(p, t, item) /\ Keep
    \/ \E p \in Procs : add_thread_item_insert(p) /\ Keep
    \/ \E p \in Procs : add_thread_item_rollback(p) /\ Keep

AtomicSpec == Init /\ [][AtomicNext]_vars

\* Calls made one after the other: threads and items saved again with other
\* documents, loaded and deleted.
DocNext ==
    \/ \E p \in Procs, thread \in DocThreadInputs :
         Sequential(p) /\ save_thread(p, thread) /\ Keep
    \/ \E p \in Procs, t \in ThreadIds : Sequential(p) /\ load_thread(p, t) /\ Keep
    \/ \E p \in Procs, t \in ThreadIds : Sequential(p) /\ delete_thread(p, t) /\ Keep
    \/ \E p \in Procs, t \in ThreadIds, item \in DocItemInputs :
         Sequential(p) /\ add_thread_item(p, t, item) /\ Keep
    \/ \E p \in Procs : Sequential(p) /\ add_thread_item_insert(p) /\ Keep
    \/ \E p \in Procs, t \in ThreadIds, item \in DocItemInputs :
         Sequential(p) /\ save_item(p, t, item) /\ Keep
    \/ \E p \in Procs, t \in ThreadIds, i \in ItemIds :
         Sequential(p) /\ load_item(p, t, i) /\ Keep
    \/ \E p \in Procs, t \in ThreadIds, i \in ItemIds :
         Sequential(p) /\ delete_thread_item(p, t, i) /\ Keep

DocSpec == Init /\ [][DocNext]_vars

\* Threads saved again and again with other documents as the clock advances,
\* loaded and deleted.
SaveNext ==
    \/ Tick /\ Keep
    \/ \E p \in Procs, thread \in SavedThreadInputs : save_thread(p, thread) /\ Keep
    \/ \E p \in Procs, t \in ThreadIds : load_thread(p, t) /\ Keep
    \/ \E p \in Procs, t \in ThreadIds : delete_thread(p, t) /\ Keep

SaveSpec == Init /\ [][SaveNext]_vars

\* Threads that hold items saved again with other documents as the clock
\* advances, the calls made one after the other.
UpsertNext ==
    \/ Tick /\ Keep
    \/ \E p \in Procs, thread \in UpsertThreadInputs :
         Sequential(p) /\ save_thread(p, thread) /\ Keep
    \/ \E p \in Procs, t \in ThreadIds, item \in ItemInputs :
         Sequential(p) /\ add_thread_item(p, t, item) /\ Keep
    \/ \E p \in Procs : Sequential(p) /\ add_thread_item_insert(p) /\ Keep

UpsertSpec == Init /\ [][UpsertNext]_vars

\* Threads saved and deleted as the clock advances, and listings of them.
ThreadsNext ==
    \/ Tick /\ Keep
    \/ \E p \in Procs, thread \in ListedThreadInputs : save_thread(p, thread) /\ Keep
    \/ \E p \in Procs, t \in ListedThreadIds : delete_thread(p, t) /\ Keep
    \/ \E p \in Procs, t \in ListedThreadIds : load_thread(p, t) /\ Keep
    \/ \E p \in Procs, limit \in Limits, after \in ListedThreadIds \cup {NoId},
          order \in OrderArgs :
         load_threads(p, limit, after, order) /\ Keep

ThreadsSpec == Init /\ [][ThreadsNext]_vars

\* Concurrent callers of the RawAttachmentStore that main.py builds.
AttachmentNext ==
    \/ \E p \in Procs, input \in AttachmentInputs :
         create_attachment(p, input) /\ KeepStore
    \/ \E p \in Procs : create_write_bytes(p) /\ KeepStore
    \/ \E p \in Procs : create_write_json(p) /\ KeepStore
    \/ \E p \in Procs, db_ok \in BOOLEAN : create_save_metadata(p, db_ok) /\ KeepStore
    \/ \E p \in Procs, a \in AttachmentIds : delete_attachment(p, a) /\ KeepStore
    \/ \E p \in Procs : delete_rmtree(p) /\ KeepStore
    \/ \E p \in Procs, db_ok \in BOOLEAN : delete_metadata(p, db_ok) /\ KeepStore
    \/ \E p \in Procs, a \in AttachmentIds : get_metadata(p, a) /\ KeepStore
    \/ \E p \in Procs, a \in AttachmentIds : get_local_path(p, a) /\ KeepStore

AttachmentSpec == Init /\ [][AttachmentNext]_vars

\* The same store with its calls made one after the other and a database
\* that carries out every statement.
LockstepNext ==
    \/ \E p \in Procs, input \in AttachmentInputs :
         Sequential(p) /\ create_attachment(p, input) /\ KeepStore
    \/ \E p \in Procs : Sequential(p) /\ create_write_bytes(p) /\ KeepStore
    \/ \E p \in Procs : Sequential(p) /\ create_write_json(p) /\ KeepStore
    \/ \E p \in Procs : Sequential(p) /\ create_save_metadata(p, TRUE) /\ KeepStore
    \/ \E p \in Procs, a \in AttachmentIds :
         Sequential(p) /\ delete_attachment(p, a) /\ KeepStore
    \/ \E p \in Procs : Sequential(p) /\ delete_rmtree(p) /\ KeepStore
    \/ \E p \in Procs : Sequential(p) /\ delete_metadata(p, TRUE) /\ KeepStore
    \/ \E p \in Procs, a \in AttachmentIds :
         Sequential(p) /\ get_metadata(p, a) /\ KeepStore
    \/ \E p \in Procs, a \in AttachmentIds :
         Sequential(p) /\ get_local_path(p, a) /\ KeepStore

LockstepSpec == Init /\ [][LockstepNext]_vars

\* ================================================================ claims
ItemsOf(thread_id) == {r \in thread_items : r.thread_id = thread_id}
AllIdle == \A p \in Procs : pc[p] = "idle"

\* C1: after any number of concurrent add_thread_item calls (distinct item
\* ids) on a thread that started empty, once every call has returned the
\* positions stored for the thread are exactly 0 .. N-1: none shared, none
\* skipped.  (ItemsSpec deletes no row, so every thread starts empty and only
\* grows.)
C1_PositionsDense ==
    AllIdle =>
      \A t \in ThreadIds :
        /\ {r.position : r \in ItemsOf(t)} = 0 .. (Cardinality(ItemsOf(t)) - 1)
        /\ \A r, q \in ItemsOf(t) : r.position = q.position => r = q

\* C2: in calls made one after the other, a newly inserted item gets a
\* position strictly greater than every position ever assigned in its
\* thread, positions of deleted items included.
C2_PositionNeverReused ==
    [][\A r \in thread_items' :
         (~ \E q \in thread_items : q.id = r.id)
           => r.position > max_assigned[r.thread_id]]_vars

\* The walk of a listing: from `after`, pass each returned cursor to the next
\* call until has_more is false, and concatenate the pages.  fuel bounds the
\* number of calls; a walk that fails ends with the failure.
RECURSIVE WalkItems(_, _, _, _, _)
WalkItems(thread_id, after, limit, order, fuel) ==
    LET page == load_thread_items_worker(thread_id, after, limit, order)
    IN  IF page.status # "ok" THEN <<page.status>>
        ELSE IF page.has_more /\ fuel > 0
             THEN page.data \o WalkItems(thread_id, page.after, limit, order, fuel - 1)
             ELSE page.data

RECURSIVE WalkThreads(_, _, _, _)
WalkThreads(after, limit, order, fuel) ==
    LET page == load_threads_worker(limit, after, order)
    IN  IF page.status # "ok" THEN <<page.status>>
        ELSE IF page.has_more /\ fuel > 0
             THEN page.data \o WalkThreads(page.after, limit, order, fuel - 1)
             ELSE page.data

\* w lists every row of rows once and no other
ListsExactly(w, rows) ==
    /\ Len(w) = Cardinality(rows)
    /\ {w[k] : k \in 1..Len(w)} = {validate_json(r.data) : r \in rows}

PositionOf(doc) == (CHOOSE r \in thread_items : r.id = doc.id).position
UpdatedAtOf(doc) == (CHOOSE r \in threads : r.id = doc.id).updated_at

PageSizes == 1..MaxLimit

\* C3: for both orders and every page size, the walk of load_thread_items
\* over a thread (no write during the walk) returns every item of the thread
\* once, and no other, sorted by position in the requested direction.
C3_ItemsWalkComplete ==
    \A t \in ThreadIds, order \in {"asc", "desc"}, limit \in PageSizes :
      LET w == WalkItems(t, NoId, limit, order, Cardinality(ItemsOf(t)) + 1)
      IN  /\ ListsExactly(w, ItemsOf(t))
          /\ \A j, k \in 1..Len(w) :
               j < k => IF order = "asc"
                        THEN PositionOf(w[j]) <= PositionOf(w[k])
                        ELSE PositionOf(w[j]) >= PositionOf(w[k])

\* C4: for both orders and every page size, the walk of load_threads returns
\* every stored thread once, ordered by (updated_at, id) in the requested
\* direction, also when threads share their updated_at.
C4_ThreadsWalkComplete ==
    \A order \in {"asc", "desc"}, limit \in PageSizes :
      LET w == WalkThreads(NoId, limit, order, Cardinality(threads) + 1)
      IN  /\ ListsExactly(w, threads)
          /\ \A j, k \in 1..Len(w) :
               j < k =>
                 LET a == UpdatedAtOf(w[j])
                     b == UpdatedAtOf(w[k])
                 IN  IF order = "asc"
                     THEN a < b \/ (a = b /\ w[j].id < w[k].id)
                     ELSE a > b \/ (a = b /\ w[j].id > w[k].id)

\* a page of load_threads has just ended between two threads that share their
\* updated_at: the cursor names one, the other is still to be listed
C4_Witness ==
    /\ last.op = "load_threads"
    /\ last.status = "ok"
    /\ last.has_more
    /\ \E r, q \in threads :
         /\ r.id = last.after
         /\ q.id # r.id
         /\ q.updated_at = r.updated_at
         /\ \A k \in 1..Len(last.data) : last.data[k].id # q.id

\* C5: every successful save_thread, add_thread_item, save_item and
\* delete_thread_item on thread t leaves t's updated_at at the time of the
\* call.
C5_UpdatedAtRefreshed ==
    [][\A p \in Procs, t \in ThreadIds :
         /\ \/ \E thread \in ThreadInputs : thread.id = t /\ save_thread(p, thread)
            \/ frame[p].thread_id = t /\ add_thread_item_insert(p)
            \/ \E item \in ItemInputs : save_item(p, t, item)
            \/ \E i \in ItemIds : delete_thread_item(p, t, i)
         /\ last'.status = "ok"
         => \A r \in threads' : r.id = t => r.updated_at = now']_vars

\* C6: a successful delete_thread(t) leaves no item of t in the store, so
\* load_item(t, i) fails with KeyError for every i, and leaves the items of
\* the other threads as they were.
C6_CascadeDelete ==
    [][\A p \in Procs, t \in ThreadIds :
         delete_thread(p, t) /\ last'.status = "ok"
         => /\ \A r \in thread_items' : r.thread_id # t
            /\ \A i \in ItemIds : load_item_worker(t, i)'.status = "KeyError"
            /\ {r \in thread_items' : r.thread_id # t}
                 = {r \in thread_items : r.thread_id # t}]_vars

\* a thread that had items has just been deleted, and another thread still
\* has its items
C6_Witness ==
    /\ last.op = "delete_thread"
    /\ last.status = "ok"
    /\ last.cascaded > 0
    /\ thread_items # {}

\* C7: with a metadata store configured, a create_attachment whose files are
\* written and whose mirrored record cannot be saved still returns the
\* attachment, and leaves the files on disk and the records as they were.
C7_CreateSurvivesMirrorFailure ==
    [][\A p \in Procs :
         MetadataStoreConfigured /\ create_save_metadata(p, FALSE)
         => /\ last'.status = "ok"
            /\ disk' = disk
            /\ disk'[frame[p].attachment_id].metadata # NoMeta
            /\ attachments' = attachments]_vars

\* C8: with a metadata store configured, a delete_attachment that has removed
\* the directory and cannot delete the mirrored record (the statement fails,
\* or there is no record for the id) still completes successfully, with the
\* directory gone.
C8_DeleteSurvivesMirrorFailure ==
    [][\A p \in Procs, db_ok \in BOOLEAN :
         /\ MetadataStoreConfigured
         /\ delete_metadata(p, db_ok)
         /\ ~ db_ok \/ \A r \in attachments : r.id # frame[p].attachment_id
         => /\ last'.status = "ok"
            /\ ~ disk'[frame[p].attachment_id].exists]_vars

\* C9: a load_threads or load_thread_items whose `after` names no row (for
\* items: no item with that id in the thread) gives the outcome of the same
\* call with no `after`: the same page, has_more and cursor; with a limit of
\* at least 1 that outcome is a page, never a failure.
C9_DanglingCursorIgnored ==
    \A limit \in Limits, order \in OrderArgs :
      /\ \A after \in ThreadIds :
           (\A r \in threads : r.id # after)
           => LET page == load_threads_worker(limit, after, order)
              IN  /\ page = load_threads_worker(limit, NoId, order)
                  /\ limit >= 1 => page.status = "ok"
      /\ \A t \in ThreadIds, after \in ItemIds :
           MatchingItems(t, after) = {}
           => LET page == load_thread_items_worker(t, after, limit, order)
              IN  /\ page = load_thread_items_worker(t, NoId, limit, order)
                  /\ limit >= 1 => page.status = "ok"

\* load_thread_items has just returned a page of a thread's items for a
\* cursor that names an item of another thread, so no item of this one
C9_Witness ==
    /\ last.op = "load_thread_items"
    /\ last.status = "ok"
    /\ \E t \in ThreadIds, after \in ItemIds :
         /\ MatchingItems(t, after) = {}
         /\ \E r \in thread_items : r.id = after
         /\ last = load_thread_items_worker(t, after, 1, "asc")
         /\ last.data # <<>>

\* what Page holds for the rows that lie after the cursor boundary
PageContract(page, boundary, limit) ==
    /\ page.status = "ok"
    /\ Len(page.data) <= limit
    /\ page.has_more = (Cardinality(boundary) > limit)
    /\ (page.data # <<>> \/ page.has_more)
         => /\ page.data # <<>>
            /\ page.after = page.data[Len(page.data)].id
    /\ (page.data = <<>> /\ ~ page.has_more) => page.after = NoId

\* C10: for every limit >= 0, cursor and store contents, load_threads and
\* load_thread_items return a page of at most limit records, has_more exactly
\* when more than limit records lie after the cursor boundary, `after` the id
\* of the last record of the page when the page is non-empty or has_more, and
\* no `after` otherwise; no call fails.
C10_PageContract ==
    \A limit \in Limits, order \in OrderArgs :
      /\ \A after \in ThreadIds \cup {NoId} :
           PageContract(load_threads_worker(limit, after, order),
                        ThreadsWhere(after, _safe_order(order)), limit)
      /\ \A t \in ThreadIds, after \in ItemIds \cup {NoId} :
           PageContract(load_thread_items_worker(t, after, limit, order),
                        ItemsWhere(t, after, _safe_order(order)), limit)

\* C11: after every save_thread there is exactly one row with the thread's
\* id; its document is the one just saved, its updated_at the time of the
\* save, and its created_at the thread's own creation time when the thread
\* carries one (else the time of a save, this one or an earlier one).
C11_SaveThreadUpsert ==
    [][\A p \in Procs, thread \in SavedThreadInputs :
         save_thread(p, thread)
         => LET rows == {r \in threads' : r.id = thread.id}
            IN  /\ Cardinality(rows) = 1
                /\ \A r \in rows :
                     /\ validate_json(r.data) = thread
                     /\ r.updated_at = now'
                     /\ IF thread.created_at # NoTime
                        THEN r.created_at = thread.created_at
                        ELSE r.created_at <= now']_vars

\* C12: save_item(thread_id, item) on a row matching both thread_id and the
\* item's id replaces that row's document and leaves its position, and every
\* other row, as they were; when no row matches the pair it fails with
\* KeyError and leaves the store as it was.
C12_SaveItemInPlace ==
    [][\A p \in Procs, t \in ThreadIds, item \in DocItemInputs :
         item.id # NoId /\ save_item(p, t, item)
         => LET hit == MatchingItems(t, item.id)
            IN  IF hit = {}
                THEN /\ last'.status = "KeyError"
                     /\ thread_items' = thread_items
                     /\ threads' = threads
                ELSE /\ last'.status = "ok"
                     /\ Cardinality(thread_items') = Cardinality(thread_items)
                     /\ \A r \in thread_items \ hit : r \in thread_items'
                     /\ \A r \in hit : \E q \in thread_items' :
                          /\ q.id = r.id
                          /\ q.thread_id = r.thread_id
                          /\ q.position = r.position
                          /\ q.created_at = r.created_at
                          /\ validate_json(q.data) = item]_vars

\* save_item has just rewritten the document of the item at position 1 of a
\* thread whose item at position 0 still holds another document
C12_Witness ==
    /\ last.op = "save_item"
    /\ last.status = "ok"
    /\ \E r, q \in thread_items :
         /\ r.thread_id = q.thread_id
         /\ r.position = 1 /\ validate_json(r.data).text = "y"
         /\ q.position = 0 /\ validate_json(q.data).text = "x"

\* C13: no two rows of thread_items share an id, in any thread; an
\* add_thread_item whose INSERT meets an id already stored (in the same or in
\* another thread) fails, and leaves the rows of thread_items (the existing
\* item and its position among them) and of threads (the target thread's
\* updated_at among them) as they were.
C13_ItemIdsUnique ==
    [][/\ \A r, q \in thread_items' : r.id = q.id => r = q
       /\ \A p \in Procs :
            /\ pc[p] = "add_insert"
            /\ \E r \in thread_items : r.id = frame[p].item.id
            /\ add_thread_item_insert(p)
            => /\ last'.status # "ok"
               /\ thread_items' = thread_items
               /\ threads' = threads]_vars

\* an add_thread_item has just been refused for its id, which the one stored
\* item holds, while both threads exist
C13_Witness ==
    /\ last.op = "add_thread_item"
    /\ last.status = "IntegrityError"
    /\ last.detail = "UNIQUE constraint failed"
    /\ Cardinality(threads) = 2
    /\ Cardinality(thread_items) = 1

\* attachment a on disk (directory, stored file and metadata.json) and in the
\* attachments table
OnDisk(a) == disk[a].exists /\ disk[a].blob /\ disk[a].metadata # NoMeta
Mirrored(a) == \E r \in attachments : r.id = a

\* C14: with the metadata store configured and every statement carried out,
\* after each completed create_attachment the new id has its directory with
\* the metadata side-file and a mirrored record, after each completed
\* delete_attachment(id) the id has neither, and whenever no call is under
\* way every id is in both stores or in none.
C14_Lockstep ==
    [][/\ \A p \in Procs, a \in AttachmentIds :
            /\ pc[p] = "create_save_metadata"
            /\ frame[p].attachment_id = a
            /\ create_save_metadata(p, TRUE)
            => /\ last'.status = "ok"
               /\ OnDisk(a)'
               /\ Mirrored(a)'
       /\ \A p \in Procs, a \in AttachmentIds :
            /\ pc[p] = "delete_metadata"
            /\ frame[p].attachment_id = a
            /\ delete_metadata(p, TRUE)
            => /\ last'.status = "ok"
               /\ ~ disk'[a].exists
               /\ ~ Mirrored(a)'
       /\ AllIdle' => \A a \in AttachmentIds :
                        /\ OnDisk(a)' <=> Mirrored(a)'
                        /\ disk'[a].exists <=> Mirrored(a)']_vars

\* delete_attachment has just removed one attachment from both stores while
\* another is still in both
C14_Witness ==
    /\ last.op = "delete_attachment"
    /\ last.status = "ok"
    /\ \E a, b \in AttachmentIds :
         /\ ~ disk[a].exists /\ ~ Mirrored(a)
         /\ OnDisk(b) /\ Mirrored(b)

\* C15: delete_thread(id) on an id with no thread row fails with KeyError and
\* leaves the threads, the thread items and the attachment records as they
\* were.
C15_DeleteMissingThread ==
    [][\A p \in Procs, t \in ThreadIds :
         (\A r \in threads : r.id # t) /\ delete_thread(p, t)
         => /\ last'.status = "KeyError"
            /\ threads' = threads
            /\ thread_items' = thread_items
            /\ attachments' = attachments]_vars

\* delete_thread has just failed on a missing thread while another thread
\* and its items are stored
C15_Witness ==
    /\ last.op = "delete_thread"
    /\ last.status = "KeyError"
    /\ Cardinality(threads) = 1
    /\ thread_items # {}

\* get_metadata(a) and get_local_path(a) both succeed / both fail with KeyError
Found(a) == _load_metadata(a).status = "ok" /\ LocalPath(a).status = "ok"
NotFound(a) ==
    _load_metadata(a).status = "KeyError" /\ LocalPath(a).status = "KeyError"

\* C16: once a create_attachment has returned an id, get_metadata and
\* get_local_path succeed on it until a delete removes its directory;
\* delete_attachment(id) fails with KeyError exactly when the directory does
\* not exist when it is called; after a successful delete both lookups fail
\* with KeyError.
C16_BlobLifecycle ==
    [][\A p \in Procs, a \in AttachmentIds :
         /\ (/\ pc[p] = "create_save_metadata"
             /\ frame[p].attachment_id = a
             /\ \E db_ok \in BOOLEAN : create_save_metadata(p, db_ok)
             /\ last'.status = "ok")
            => Found(a)'
         /\ (Found(a) /\ disk'[a] = disk[a]) => Found(a)'
         /\ (delete_attachment(p, a) /\ ~ disk[a].exists)
            => last'.status = "KeyError"
         /\ (/\ pc[p] \in {"delete_rmtree", "delete_metadata"}
             /\ frame[p].attachment_id = a
             /\ (delete_rmtree(p) \/ \E db_ok \in BOOLEAN : delete_metadata(p, db_ok))
             /\ pc'[p] = "idle")
            => /\ last'.status # "KeyError"
               /\ last'.status = "ok" => NotFound(a)']_vars

\* C17: add_thread_item with an item that carries no id fails with
\* ValueError before any statement runs: the call ends there, no row is
\* inserted, the next position of the thread is what it was, and threads
\* (the parent's updated_at) is unchanged.
C17_AddWithoutId ==
    [][\A p \in Procs, t \in ThreadIds, item \in ItemInputs :
         item.id = NoId /\ add_thread_item(p, t, item)
         => /\ last'.status = "ValueError"
            /\ last'.op = "add_thread_item"
            /\ pc'[p] = "idle"
            /\ thread_items' = thread_items
            /\ NextPosition(t)' = NextPosition(t)
            /\ threads' = threads]_vars

\* add_thread_item has just refused an item without id, aimed at a stored
\* thread that has an item
C17_Witness ==
    /\ last.op = "add_thread_item"
    /\ last.status = "ValueError"
    /\ threads # {}
    /\ thread_items # {}

\* a MIME type whose top-level type is image, in any letter case
IsImageType(mime_type) == mime_type.major \in {"image", "IMAGE", "Image"}

\* C18: the Attachment a create_attachment returns is the image variant with
\* a preview URL exactly when the declared MIME type starts with image/, the
\* file variant without preview URL otherwise; its upload_url is empty and
\* its id, name, MIME type and size are those of the metadata side-file.
C18_MimeDispatch ==
    [][\A p \in Procs, a \in AttachmentIds :
         /\ pc[p] = "create_save_metadata"
         /\ frame[p].attachment_id = a
         /\ \E db_ok \in BOOLEAN : create_save_metadata(p, db_ok)
         /\ last'.status = "ok"
         => LET v == last'.value
                mime_type == frame[p].input.mime_type
                side == disk'[a].metadata
            IN  /\ IsImageType(mime_type)
                     => v.type = "image" /\ v.preview_url # NoId
                /\ ~ IsImageType(mime_type)
                     => v.type = "file" /\ v.preview_url = NoId
                /\ v.upload_url = NoId
                /\ disk'[a].exists
                     => /\ v.id = side.id
                        /\ v.name = side.name
                        /\ v.mime_type = side.mime_type
                        /\ v.size = side.size]_vars

\* create_attachment has just returned an image attachment, declared in upper
\* case, with its side-file on disk, while a file attachment is stored too
C18_Witness ==
    /\ last.op = "create_attachment"
    /\ last.status = "ok"
    /\ last.value.type = "image"
    /\ last.value.mime_type.major = "IMAGE"
    /\ disk[last.value.id].exists
    /\ \E r \in attachments : validate_json(r.data).type = "file"

\* order arguments: asc and desc in several letter cases, and other values
OrderValues == {"asc", "ASC", "Asc", "desc", "DESC", "Desc", "newest", ""}
\* what an order argument means: ascending for asc in any letter case,
\* descending for everything else
MeaningOf(order) == IF order \in {"asc", "ASC", "Asc"} THEN "asc" ELSE "desc"

\* C19: load_threads and load_thread_items normalize their order argument to
\* asc or desc: asc and desc in any letter case give the result of asc and
\* desc, every other value gives the result of desc.
C19_OrderNormalized ==
    \A order \in OrderValues :
      /\ _safe_order(order) \in {"asc", "desc"}
      /\ \A limit \in Limits :
           /\ \A after \in ThreadIds \cup {NoId} :
                load_threads_worker(limit, after, order)
                  = load_threads_worker(limit, after, MeaningOf(order))
           /\ \A t \in ThreadIds, after \in ItemIds \cup {NoId} :
                load_thread_items_worker(t, after, limit, order)
                  = load_thread_items_worker(t, after, limit, MeaningOf(order))

\* load_thread_items has just listed two items for the order "ASC", which
\* the order "newest" lists the other way round
C19_Witness ==
    /\ last.op = "load_thread_items"
    /\ last.status = "ok"
    /\ Len(last.data) = 2
    /\ \E t \in ThreadIds :
         /\ last = load_thread_items_worker(t, NoId, 2, "ASC")
         /\ last # load_thread_items_worker(t, NoId, 2, "newest")

C21_InsertionOrder ==
    [][\A p \in Procs, t \in ThreadIds, item \in ItemInputs :
         /\ pc[p] = "add_insert"
         /\ frame[p].thread_id = t
         /\ frame[p].item = item
         /\ add_thread_item_insert(p)
         /\ last'.status = "ok"
         => /\ load_thread_items_worker(t, NoId, MaxLimit, "asc")'.data
                 = load_thread_items_worker(t, NoId, MaxLimit, "asc").data
                     \o <<item>>
            /\ load_thread_items_worker(t, NoId, MaxLimit, "desc")'.data
                 = <<item>>
                     \o load_thread_items_worker(t, NoId, MaxLimit, "desc").data]_vars

\* load_thread_items has just listed, for asc, the item with the larger id in
\* front of the item with the smaller id, which was added after it
C21_Witness ==
    /\ last.op = "load_thread_items"
    /\ last.status = "ok"
    /\ Len(last.data) = 2
    /\ last.data[1].id > last.data[2].id
    /\ \E t \in ThreadIds :
         /\ last = load_thread_items_worker(t, NoId, MaxLimit, "asc")
         /\ \A r \in ItemsOf(t) : r.created_at = 0

\* C22: of two add_thread_item calls on one thread that both succeed, the one
\* that commits first has the strictly smaller position, under any
\* interleaving: the row a commit inserts lies above every row of the thread
\* committed before it (no row is deleted in ItemsSpec).
C22_CommitOrder ==
    [][\A p \in Procs, t \in ThreadIds :
         /\ pc[p] = "add_insert"
         /\ frame[p].thread_id = t
         /\ add_thread_item_insert(p)
         /\ last'.status = "ok"
         => \A r \in ItemsOf(t) : r.position < frame[p].position]_vars

\* the rows of thread t whose (position, id) lies strictly after that of the
\* cursor row c in the direction of order
AfterCursor(t, c, order) ==
    LET position == (CHOOSE r \in MatchingItems(t, c) : TRUE).position
    IN  {r \in ItemsOf(t) :
           IF order = "asc"
           THEN r.position > position \/ (r.position = position /\ r.id > c)
           ELSE r.position < position \/ (r.position = position /\ r.id < c)}

\* C23: for a cursor c that names an item of the thread, load_thread_items
\* returns exactly the items of the thread whose (position, id) lies strictly
\* after (position of c, c) in the requested direction; an item with the
\* position of c and an id after c is among them.
C23_ItemsCompositePredicate ==
    \A t \in ThreadIds, c \in ItemIds, order \in {"asc", "desc"} :
      MatchingItems(t, c) # {}
      => LET page == load_thread_items_worker(t, c, MaxLimit, order)
         IN  /\ page.status = "ok"
             /\ {page.data[k].id : k \in 1..Len(page.data)}
                  = {r.id : r \in AfterCursor(t, c, order)}

\* C24: the statements of add_thread_item take effect together or not at
\* all: a call in which a statement fails leaves thread_items and threads as
\* they were, a call that succeeds leaves the row inserted and the thread's
\* updated_at at the time of the UPDATE, and no state holds an item whose
\* thread has an updated_at older than the call that added the item.
C24_AddAtomic ==
    [][/\ \A p \in Procs :
            add_thread_item_insert(p) \/ add_thread_item_rollback(p)
            => IF last'.status = "ok"
               THEN /\ \E r \in thread_items' \ thread_items :
                         r.id = frame[p].item.id
                    /\ \A r \in threads' :
                         r.id = frame[p].thread_id => r.updated_at = now'
               ELSE thread_items' = thread_items /\ threads' = threads
       /\ \A r \in thread_items' : \E t \in threads' :
            t.id = r.thread_id /\ t.updated_at >= r.created_at]_vars

\* one add_thread_item has been rolled back after a statement failed, while
\* the thread it was aimed at holds an item added after the thread was saved
C24_Witness ==
    /\ last.op = "add_thread_item"
    /\ last.status = "OperationalError"
    /\ \E r \in thread_items, t \in threads :
         t.id = r.thread_id /\ r.created_at = 1 /\ t.created_at = 0

\* C25: under any interleaving of a create_attachment with a concurrent
\* delete_attachment, get_metadata or get_local_path on the same id, the
\* attachment is only ever observed as fully created (directory, stored file
\* and side-file) or as fully absent: a delete that finds the directory and a
\* lookup that answers find all three, a create that has made its directory
\* writes both files, and no directory is left with less than both files
\* once every call has returned.
C25_CreateAllOrNothing ==
    [][/\ \A p \in Procs, a \in AttachmentIds :
            delete_attachment(p, a) /\ pc'[p] = "delete_rmtree" => OnDisk(a)
       /\ \A p \in Procs, a \in AttachmentIds :
            (get_metadata(p, a) \/ get_local_path(p, a)) /\ last'.status = "ok"
            => OnDisk(a)
       /\ \A p \in Procs :
            create_write_bytes(p) \/ create_write_json(p) => pc'[p] # "idle"
       /\ AllIdle' => \A a \in AttachmentIds : disk'[a].exists => OnDisk(a)']_vars

\* C26: no orphan items: in every state each thread item's thread_id names
\* an existing thread, and an add_thread_item whose thread has no row when
\* its INSERT runs fails and inserts nothing.
C26_NoOrphanItems ==
    [][/\ \A r \in thread_items' : \E t \in threads' : t.id = r.thread_id
       /\ \A p \in Procs :
            /\ add_thread_item_insert(p)
            /\ ~ \E t \in threads : t.id = frame[p].thread_id
            => /\ last'.status = "IntegrityError"
               /\ thread_items' = thread_items
               /\ threads' = threads]_vars
C26_Witness ==
    /\ last.op = "add_thread_item"
    /\ last.status = "IntegrityError"
    /\ last.detail = "FOREIGN KEY constraint failed"
    /\ thread_items # {}

\* C27: save_thread on a thread id that already has a row changes only that
\* row's document and updated_at: its created_at keeps the value of the
\* first save, every other thread row is as it was, and the rows of
\* thread_items (the items, their threads and their positions, hence the
\* order they are listed in) are unchanged.
C27_UpsertKeepsRow ==
    [][\A p \in Procs, thread \in UpsertThreadInputs :
         /\ save_thread(p, thread)
         /\ \E r \in threads : r.id = thread.id
         => /\ \A r \in threads :
                 IF r.id # thread.id THEN r \in threads'
                 ELSE \E n \in threads' :
                        /\ n.id = r.id
                        /\ n.created_at = r.created_at
                        /\ n.updated_at = now'
                        /\ validate_json(n.data) = thread
            /\ Cardinality(threads') = Cardinality(threads)
            /\ thread_items' = thread_items]_vars
C27_Witness ==
    /\ last.op = "save_thread"
    /\ \E t \in threads :
         /\ t.created_at = 0
         /\ t.updated_at = 1
         /\ validate_json(t.data).created_at = 1
         /\ ItemsOf(t.id) # {}
         /\ \A r \in ItemsOf(t.id) : r.created_at = 0

====
